---- MODULE Spec2Model ----
(***************************************************************************)
(* Model of hlubek/metaprogramming-go: the repository operations           *)
(* (InsertProduct, UpdateProduct, ProductChangeSet.toMap) running against  *)
(* an SQL store, and the change-set code generator (cmd/generator).        *)
(***************************************************************************)
EXTENDS Integers, Sequences, FiniteSets, TLC

VARIABLES
    build,      \* the repository package's ProductChangeSet: "handwritten" or "generated"
    tables,     \* the store: relation name -> sequence of rows (column -> value)
    call        \* the repository call in progress: its input, what it submitted,
                \* what it returns

VARIABLES
    generator,  \* the generator program that is run: cmd/generator/main.go, or
                \* the later program that also emits toMap
    source,     \* the struct the developer declared as type P of package d.d
    pc,         \* the generator process: the stage it is about to run
    osArgs,     \* os.Args of the generator process
    proc,       \* the locals of main and generate
    exitCode,   \* the exit code of a process that ended
    stderr,     \* what the process wrote to standard error, line by line
    stages,     \* the stages the process has run, in order
    fs,         \* the files of the directory the generator writes to
    prev,       \* the run before this one: its inputs, result and files
    runs        \* how many times the generator was started

repoVars == <<build, tables, call>>
genVars == <<generator, source, pc, osArgs, proc, exitCode, stderr, stages, fs, prev, runs>>
vars == <<build, tables, call,
          generator, source, pc, osArgs, proc, exitCode, stderr, stages, fs, prev, runs>>

(***************************************************************************)
(* Go values.  Every value carries its type, so that a *string and the     *)
(* string it points to are different values.                               *)
(***************************************************************************)
GoString(s) == [t |-> "string", v |-> s]
GoInt(n) == [t |-> "int", v |-> n]
GoBool(b) == [t |-> "bool", v |-> b]
GoUUID(u) == [t |-> "uuid.UUID", v |-> u]
Ptr(val) == [t |-> "ptr", to |-> val]
Nil == [t |-> "nil"]
Null == [t |-> "null"]

EmptyMap == [k \in {} |-> Nil]
MapSet(m, k, v) == [x \in (DOMAIN m) \cup {k} |-> IF x = k THEN v ELSE m[x]]

\* error values: the message, part by part; the nil error is the empty message
NoError == <<>>
Wrap(prefix, err) == <<prefix>> \o err

(***************************************************************************)
(* Strings the program takes apart (arguments, file names, struct tags)    *)
(* are sequences of one-character strings; Flatten gives the Go string.    *)
(***************************************************************************)
RECURSIVE Flatten(_)
Flatten(cs) == IF cs = <<>> THEN "" ELSE Head(cs) \o Flatten(Tail(cs))

UpperLetters == <<"A","B","C","D","E","F","G","H","I","J","K","L","M",
                  "N","O","P","Q","R","S","T","U","V","W","X","Y","Z">>
LowerLetters == <<"a","b","c","d","e","f","g","h","i","j","k","l","m",
                  "n","o","p","q","r","s","t","u","v","w","x","y","z">>

\* strings.ToLower, one character
LowerChar(c) ==
    IF \E i \in 1..Len(UpperLetters) : UpperLetters[i] = c
    THEN LowerLetters[CHOOSE i \in 1..Len(UpperLetters) : UpperLetters[i] = c]
    ELSE c

\* strings.ToLower
ToLower(cs) == [i \in 1..Len(cs) |-> LowerChar(cs[i])]

\* IndexByte: the 0-based index of the first c in s, or -1
IndexByte(cs, c) ==
    IF \E i \in 1..Len(cs) : cs[i] = c
    THEN (CHOOSE i \in 1..Len(cs) : cs[i] = c /\ \A j \in 1..(i-1) : cs[j] # c) - 1
    ELSE -1

\* strings.LastIndexByte(s, c): the 0-based index of the last c in s, or -1
LastIndexByte(cs, c) ==
    IF \E i \in 1..Len(cs) : cs[i] = c
    THEN (CHOOSE i \in 1..Len(cs) : cs[i] = c /\ \A j \in (i+1)..Len(cs) : cs[j] # c) - 1
    ELSE -1

\* the Go slice expression s[lo:hi], 0-based, hi exclusive
Slice(cs, lo, hi) == SubSeq(cs, lo + 1, hi)

\* filepath.Ext: the suffix beginning at the final dot in the final path
\* element; empty if there is no dot
Ext(path) ==
    LET dots == {i \in 1..Len(path) :
                    /\ path[i] = "."
                    /\ \A j \in i..Len(path) : path[j] # "/"
                    /\ \A j \in (i+1)..Len(path) : path[j] # "."}
    IN IF dots = {} THEN <<>>
       ELSE SubSeq(path, CHOOSE i \in dots : TRUE, Len(path))


(***************************************************************************)
(* go/types: the shapes of a field's type, and the declarations of the     *)
(* packages the generator can be pointed at.                               *)
(***************************************************************************)
Basic(name) == [kind |-> "Basic", name |-> name]
Named(pkgPath, name) == [kind |-> "Named", pkg |-> pkgPath, name |-> name]
Composite(kind) == [kind |-> kind]

\* Pkg() of a type declared in the universe scope (error) is nil
NoPkg == "<nil>"

UuidPath == "github.com/gofrs/uuid"

\* `col:"<name>"`, as written in the struct tags of domain.Product
ColTag(name) == <<"c", "o", "l", ":", "\"">> \o name \o <<"\"">>

Field(name, type, tag) == [name |-> name, type |-> type, tag |-> tag]

\* domain.Product
ProductStruct == <<
    Field("ID", Named(UuidPath, "UUID"), ColTag(<<"p","r","o","d","u","c","t","_","i","d">>)),
    Field("ArticleNumber", Basic("string"),
          ColTag(<<"a","r","t","i","c","l","e","_","n","u","m","b","e","r">>)),
    Field("Name", Basic("string"), ColTag(<<"n","a","m","e">>)),
    Field("Description", Basic("string"),
          ColTag(<<"d","e","s","c","r","i","p","t","i","o","n">>)),
    Field("Color", Basic("string"), ColTag(<<"c","o","l","o","r">>)),
    Field("Size", Basic("string"), ColTag(<<"s","i","z","e">>)),
    Field("StockAvailability", Basic("int"),
          ColTag(<<"s","t","o","c","k","_","a","v","a","i","l","a","b","i","l","i","t","y">>)),
    Field("PriceCents", Basic("int"),
          ColTag(<<"p","r","i","c","e","_","c","e","n","t","s">>)),
    Field("OnSale", Basic("bool"), ColTag(<<"o","n","_","s","a","l","e">>)) >>

(***************************************************************************)
(* The generator's tag pattern, regexp `col:"([^"]+)"`.                    *)
(***************************************************************************)
ColPrefix == <<"c", "o", "l", ":", "\"">>

\* the pattern matches at 1-based position i of tag: the prefix, then one or
\* more characters that are not a quote, then a quote
MatchesAt(tag, i) ==
    /\ i + Len(ColPrefix) - 1 <= Len(tag)
    /\ SubSeq(tag, i, i + Len(ColPrefix) - 1) = ColPrefix
    /\ i + Len(ColPrefix) <= Len(tag)
    /\ tag[i + Len(ColPrefix)] # "\""
    /\ \E j \in (i + Len(ColPrefix) + 1)..Len(tag) : tag[j] = "\""

\* structColPattern.FindStringSubmatch(tagValue): <<>> for nil (no match),
\* else <<whole match, first group>> of the leftmost match
FindStringSubmatch(tag) ==
    LET starts == {i \in 1..Len(tag) : MatchesAt(tag, i)}
    IN IF starts = {} THEN <<>>
       ELSE LET i == CHOOSE k \in starts : \A l \in starts : k <= l
                from == i + Len(ColPrefix)
                close == CHOOSE j \in (from + 1)..Len(tag) :
                            /\ tag[j] = "\""
                            /\ \A l \in from..(j - 1) : tag[l] # "\""
            IN << SubSeq(tag, i, close), SubSeq(tag, from, close - 1) >>


(***************************************************************************)
(* generate: the code the generator emits, as the tree jennifer renders.   *)
(***************************************************************************)
\* %T of a go/types type: the Go type of its representation
TypeT(type) == "*types." \o type.kind

\* one round of the first loop of generate: the change-set field for a
\* struct field, or the error the default case returns, or the panic of
\* typeName.Pkg().Path() on a nil package
ChangeSetField(field) ==
    CASE field.type.kind = "Basic" ->
            [status |-> "ok",
             code |-> [name |-> field.name, star |-> TRUE,
                       qual |-> "", id |-> field.type.name]]
      [] field.type.kind = "Named" ->
            IF field.type.pkg = NoPkg
            THEN [status |-> "panic"]
            ELSE [status |-> "ok",
                  code |-> [name |-> field.name, star |-> TRUE,
                            qual |-> field.type.pkg, id |-> field.type.name]]
      [] OTHER ->
            [status |-> "error",
             err |-> <<"struct field type not hanled: ", TypeT(field.type)>>]

\* the first loop of generate, from field i on, changeSetFields so far acc
RECURSIVE ChangeSetFields(_, _, _)
ChangeSetFields(structType, i, acc) ==
    IF i > Len(structType)
    THEN [status |-> "ok", fields |-> acc]
    ELSE LET r == ChangeSetField(structType[i])
         IN IF r.status = "ok"
            THEN ChangeSetFields(structType, i + 1, Append(acc, r.code))
            ELSE r

\* a second loop that does not skip the fields without a match
ToMapStatementUntagged(field) ==
    LET matches == FindStringSubmatch(field.tag)
    IN << [stmt |-> "if", field |-> field.name,
           col |-> IF matches = <<>> THEN field.name ELSE Flatten(matches[2]),
           rhs |-> "*c." \o field.name] >>

\* one round of the second loop: the statement
\* if c.Field != nil { m["col"] = *c.Field }, or nothing for an unmatched tag
ToMapStatement(field) ==
    LET matches == FindStringSubmatch(field.tag)
    IN IF matches = <<>>
       THEN <<>>
       ELSE << [stmt |-> "if", field |-> field.name,
                col |-> Flatten(matches[2]), rhs |-> "*c." \o field.name] >>

\* the second loop of generate
RECURSIVE ToMapIfs(_, _)
ToMapIfs(structType, i) ==
    IF i > Len(structType) THEN <<>>
    ELSE ToMapStatement(structType[i]) \o ToMapIfs(structType, i + 1)

ToMapBlock(structType) ==
    << [stmt |-> "make"] >> \o ToMapIfs(structType, 1) \o << [stmt |-> "return"] >>

\* the packages the emitted file imports: one per Qual of another package
Imports(fields) == {fields[i].qual : i \in {j \in 1..Len(fields) : fields[j].qual # ""}}

\* the file f of generate just before f.Save
GeneratedFile(goPackage, sourceTypeName, structType, fields) ==
    LET changeSetName == Flatten(sourceTypeName) \o "ChangeSet"
    IN [comment |-> "Code generated by generator, DO NOT EDIT.",
        package |-> goPackage,
        imports |-> Imports(fields),
        decls |-> << [decl |-> "type", name |-> changeSetName, fields |-> fields],
                     [decl |-> "func", recv |-> changeSetName, name |-> "toMap",
                      result |-> "map[string]interface{}",
                      body |-> ToMapBlock(structType)] >>]

\* the programs of cmd/generator: the one that emits the change-set type
\* only, and the one that emits the type and its toMap method
TypeOnly == "cmd/generator/main.go"
WithToMap == "cmd/generator/main.go (with toMap)"
Generators == {TypeOnly, WithToMap}

\* the file f of the generate that emits no toMap, just before f.Save
ChangeSetOnlyFile(goPackage, sourceTypeName, fields) ==
    LET changeSetName == Flatten(sourceTypeName) \o "ChangeSet"
    IN [comment |-> "Code generated by generator, DO NOT EDIT.",
        package |-> goPackage,
        imports |-> Imports(fields),
        decls |-> << [decl |-> "type", name |-> changeSetName, fields |-> fields] >>]

\* a target file name that keeps the type name's case
TargetFilenameNoLower(goFile, sourceTypeName) ==
    LET ext == Ext(goFile)
        baseFilename == Slice(goFile, 0, Len(goFile) - Len(ext))
    IN Flatten(baseFilename) \o "_" \o Flatten(sourceTypeName) \o "_gen.go"

\* the target file name of generate
TargetFilename(goFile, sourceTypeName) ==
    LET ext == Ext(goFile)
        baseFilename == Slice(goFile, 0, Len(goFile) - Len(ext))
    IN Flatten(baseFilename) \o "_" \o Flatten(ToLower(sourceTypeName)) \o "_gen.go"


(***************************************************************************)
(* The repository package: Product values, change-sets and the two         *)
(* versions of ProductChangeSet.toMap (written by hand, and generated).    *)
(***************************************************************************)
Ids == {"b34081c7", "0e1a2f00"}

MaxSetFields == 2
MaxGamers == 2

FieldNames(structType) == {structType[i].name : i \in 1..Len(structType)}
FieldOf(structType, name) ==
    structType[CHOOSE i \in 1..Len(structType) : structType[i].name = name]

\* the zero value of a field's type
ZeroValue(type) ==
    CASE type = Basic("string") -> GoString("")
      [] type = Basic("int") -> GoInt(0)
      [] type = Basic("bool") -> GoBool(FALSE)
      [] OTHER -> GoUUID("00000000")

\* a value of a field's type that is not the zero value
SampleValue(field) ==
    CASE field.name = "ArticleNumber" -> GoString("12345678")
      [] field.name = "Name" -> GoString("Cheddar cheese")
      [] field.type = Basic("string") -> GoString("x")
      [] field.type = Basic("int") -> GoInt(7)
      [] field.type = Basic("bool") -> GoBool(TRUE)
      [] OTHER -> GoUUID("ffffffff")

\* domain.Product values a caller inserts: only the ID set (cmd/example),
\* or every attribute set
Products ==
    { [f \in FieldNames(ProductStruct) |->
          IF f = "ID" THEN GoUUID(id)
          ELSE IF full THEN SampleValue(FieldOf(ProductStruct, f))
          ELSE ZeroValue(FieldOf(ProductStruct, f).type)]
      : id \in Ids, full \in BOOLEAN }

\* the fields of the hand-written ProductChangeSet, in declaration order
HandwrittenChangeSetFields ==
    << "ArticleNumber", "Name", "Description", "Color", "Size",
       "StockAvailability", "PriceCents", "OnSale" >>

\* the file the generator emits for domain.Product into package repository
ProductGenFile ==
    GeneratedFile("repository", <<"P","r","o","d","u","c","t">>, ProductStruct,
                  ChangeSetFields(ProductStruct, 1, <<>>).fields)

GeneratedChangeSetFields ==
    LET emitted == ProductGenFile.decls[1].fields
    IN [i \in 1..Len(emitted) |-> emitted[i].name]

Range(seq) == {seq[i] : i \in 1..Len(seq)}

\* the ProductChangeSet type of a build of the repository package
ChangeSetFieldNames(version) ==
    IF version = "handwritten" THEN Range(HandwrittenChangeSetFields)
    ELSE Range(GeneratedChangeSetFields)

SetFields(c) == {f \in DOMAIN c : c[f] # Nil}

\* change-set values: each field nil, or a pointer to the zero value or to
\* a non-zero value of the attribute's type; at most MaxSetFields fields set
ChangeSets(version) ==
    LET names == ChangeSetFieldNames(version)
    IN UNION { { [f \in names |->
                    IF f \notin set THEN Nil
                    ELSE IF f \in zero
                         THEN Ptr(ZeroValue(FieldOf(ProductStruct, f).type))
                         ELSE Ptr(SampleValue(FieldOf(ProductStruct, f)))]
                 : zero \in SUBSET set }
               : set \in {x \in SUBSET names : Cardinality(x) <= MaxSetFields} }

\* the hand-written toMap with the nil check of its last field dropped
HandwrittenToMapUnguarded(c) ==
    LET m0 == EmptyMap
        m1 == IF c["ArticleNumber"] # Nil
              THEN MapSet(m0, "article_number", c["ArticleNumber"]) ELSE m0
        m2 == IF c["Name"] # Nil THEN MapSet(m1, "name", c["Name"]) ELSE m1
        m3 == IF c["Description"] # Nil
              THEN MapSet(m2, "description", c["Description"]) ELSE m2
        m4 == IF c["Color"] # Nil THEN MapSet(m3, "color", c["Color"]) ELSE m3
        m5 == IF c["Size"] # Nil THEN MapSet(m4, "size", c["Size"]) ELSE m4
        m6 == IF c["StockAvailability"] # Nil
              THEN MapSet(m5, "stock_availability", c["StockAvailability"]) ELSE m5
        m7 == IF c["PriceCents"] # Nil
              THEN MapSet(m6, "price_cents", c["PriceCents"]) ELSE m6
    IN MapSet(m7, "on_sale", c["OnSale"])

\* ProductChangeSet.toMap as written by hand
HandwrittenToMap(c) ==
    LET m0 == EmptyMap
        m1 == IF c["ArticleNumber"] # Nil
              THEN MapSet(m0, "article_number", c["ArticleNumber"]) ELSE m0
        m2 == IF c["Name"] # Nil THEN MapSet(m1, "name", c["Name"]) ELSE m1
        m3 == IF c["Description"] # Nil
              THEN MapSet(m2, "description", c["Description"]) ELSE m2
        m4 == IF c["Color"] # Nil THEN MapSet(m3, "color", c["Color"]) ELSE m3
        m5 == IF c["Size"] # Nil THEN MapSet(m4, "size", c["Size"]) ELSE m4
        m6 == IF c["StockAvailability"] # Nil
              THEN MapSet(m5, "stock_availability", c["StockAvailability"]) ELSE m5
        m7 == IF c["PriceCents"] # Nil
              THEN MapSet(m6, "price_cents", c["PriceCents"]) ELSE m6
        m8 == IF c["OnSale"] # Nil THEN MapSet(m7, "on_sale", c["OnSale"]) ELSE m7
    IN m8

\* the right-hand side *c.Field of a generated assignment
Deref(p) == p.to

\* running the statements of an emitted toMap body on the change-set c,
\* from statement i on, with the map m built so far
RECURSIVE RunToMap(_, _, _, _)
RunToMap(body, i, c, m) ==
    IF i > Len(body) THEN m
    ELSE CASE body[i].stmt = "make" -> RunToMap(body, i + 1, c, EmptyMap)
           [] body[i].stmt = "if" ->
                RunToMap(body, i + 1, c,
                         IF c[body[i].field] # Nil
                         THEN MapSet(m, body[i].col, Deref(c[body[i].field]))
                         ELSE m)
           [] OTHER -> m

\* ProductChangeSet.toMap as the generator emits it for domain.Product
GeneratedToMap(c) == RunToMap(ProductGenFile.decls[2].body, 1, c, EmptyMap)

toMap(version, c) ==
    IF version = "handwritten" THEN HandwrittenToMap(c) ELSE GeneratedToMap(c)

\* InsertProduct with two map entries' values exchanged
InsertMapSwapped(product) ==
    [k \in {"product_id", "article_number", "name", "description", "color",
            "size", "stock_availability", "price_cents", "on_sale"} |->
        CASE k = "product_id" -> product["ID"]
          [] k = "article_number" -> product["ArticleNumber"]
          [] k = "name" -> product["Description"]
          [] k = "description" -> product["Name"]
          [] k = "color" -> product["Color"]
          [] k = "size" -> product["Size"]
          [] k = "stock_availability" -> product["StockAvailability"]
          [] k = "price_cents" -> product["PriceCents"]
          [] OTHER -> product["OnSale"]]

\* the map literal InsertProduct passes to SetMap
InsertMap(product) ==
    [k \in {"product_id", "article_number", "name", "description", "color",
            "size", "stock_availability", "price_cents", "on_sale"} |->
        CASE k = "product_id" -> product["ID"]
          [] k = "article_number" -> product["ArticleNumber"]
          [] k = "name" -> product["Name"]
          [] k = "description" -> product["Description"]
          [] k = "color" -> product["Color"]
          [] k = "size" -> product["Size"]
          [] k = "stock_availability" -> product["StockAvailability"]
          [] k = "price_cents" -> product["PriceCents"]
          [] OTHER -> product["OnSale"]]


\* the characters of a tag that may not be part of a key
TagDelimiters == {" ", ":", "\""}

\* reflect.StructTag.Get(key): the value of key in a tag of the conventional
\* form `key:"value" key:"value"`, or the empty string
RECURSIVE TagGet(_, _)
TagGet(tag, key) ==
    LET spaces == CHOOSE n \in 0..Len(tag) :
                     /\ \A k \in 1..n : tag[k] = " "
                     /\ (n < Len(tag) => tag[n + 1] # " ")
        t == SubSeq(tag, spaces + 1, Len(tag))
        i == CHOOSE n \in 0..Len(t) :
                /\ \A k \in 1..n : t[k] \notin TagDelimiters
                /\ (n < Len(t) => t[n + 1] \in TagDelimiters)
    IN IF t = <<>> THEN <<>>
       ELSE IF i = 0 \/ i + 1 >= Len(t) \/ t[i + 1] # ":" \/ t[i + 2] # "\"" THEN <<>>
       ELSE LET name == SubSeq(t, 1, i)
                rest == SubSeq(t, i + 2, Len(t))
                closing == {j \in 2..Len(rest) : rest[j] = "\""}
            IN IF closing = {} THEN <<>>
               ELSE LET j == CHOOSE k \in closing : \A l \in closing : k <= l
                    IN IF name = key THEN SubSeq(rest, 2, j - 1)
                       ELSE TagGet(SubSeq(rest, j + 1, Len(rest)), key)

\* the map InsertProductReflect builds from the struct tags, from field i on
RECURSIVE ReflectMap(_, _, _)
ReflectMap(structType, i, value) ==
    IF i > Len(structType) THEN EmptyMap
    ELSE LET col == TagGet(structType[i].tag, <<"c", "o", "l">>)
             rest == ReflectMap(structType, i + 1, value)
         IN IF col # <<>> /\ Flatten(col) \notin DOMAIN rest
            THEN MapSet(rest, Flatten(col), value[structType[i].name])
            ELSE rest

\* the column a Product attribute is tagged with
ColumnOf(name) == Flatten(TagGet(FieldOf(ProductStruct, name).tag, <<"c", "o", "l">>))

(***************************************************************************)
(* The store behind the runner: the products relation of schema.sql, and,  *)
(* in some stores, an unrelated gamers relation.                           *)
(***************************************************************************)
ProductColumns ==
    {"product_id", "article_number", "name", "description", "color", "size",
     "stock_availability", "price_cents", "on_sale"}

GamerColumns == {"gamer_id", "name"}

RelColumns(rel) == IF rel = "products" THEN ProductColumns ELSE GamerColumns

\* the columns under a primary-key constraint
RelKey(rel) == IF rel = "products" THEN {"product_id"} ELSE {}

\* database/sql hands a statement's arguments to the driver: a pointer as
\* the value it points to, a uuid.UUID (a driver.Valuer) as its text
RECURSIVE ConvertValue(_)
ConvertValue(v) ==
    CASE v.t = "ptr" -> ConvertValue(v.to)
      [] v.t = "uuid.UUID" -> GoString(v.v)
      [] OTHER -> v

KeysUnique(rel, rows) ==
    \A i, j \in 1..Len(rows) :
        (i # j /\ RelKey(rel) # {}) => \E k \in RelKey(rel) : rows[i][k] # rows[j][k]

\* the store executes one statement: the error, the rows affected and the
\* relations afterwards
Execute(tbls, stmt) ==
    LET rel == stmt.table
        cols == (DOMAIN stmt.set) \cup (DOMAIN stmt.where)
        failed(msg) == [err |-> <<msg>>, rows |-> 0, tables |-> tbls]
    IN IF rel \notin DOMAIN tbls THEN failed("relation does not exist")
       ELSE IF ~(cols \subseteq RelColumns(rel)) THEN failed("column does not exist")
       ELSE IF stmt.op = "insert"
       THEN LET row == [c \in RelColumns(rel) |->
                           IF c \in DOMAIN stmt.set
                           THEN ConvertValue(stmt.set[c]) ELSE Null]
                rows == Append(tbls[rel], row)
            IN IF ~KeysUnique(rel, rows) THEN failed("duplicate key value")
               ELSE [err |-> NoError, rows |-> 1,
                     tables |-> [tbls EXCEPT ![rel] = rows]]
       ELSE LET hit(row) == \A c \in DOMAIN stmt.where :
                                row[c] = ConvertValue(stmt.where[c])
                old == tbls[rel]
                rows == [i \in 1..Len(old) |->
                            IF hit(old[i])
                            THEN [c \in RelColumns(rel) |->
                                     IF c \in DOMAIN stmt.set
                                     THEN ConvertValue(stmt.set[c]) ELSE old[i][c]]
                            ELSE old[i]]
            IN IF ~KeysUnique(rel, rows) THEN failed("duplicate key value")
               ELSE [err |-> NoError,
                     rows |-> Cardinality({i \in 1..Len(old) : hit(old[i])}),
                     tables |-> [tbls EXCEPT ![rel] = rows]]

\* an ExecContext that sends the statement a second time when the
\* connection fails
ExecContextRetry(tbls, stmt, execFault) ==
    IF DOMAIN stmt.set = {}
    THEN [err |-> <<"statements must have at least one Set clause">>,
          rows |-> 0, tables |-> tbls, submitted |-> <<>>]
    ELSE LET r == Execute(tbls, stmt)
         IN [err |-> r.err, rows |-> r.rows, tables |-> r.tables,
             submitted |-> IF execFault THEN <<stmt, stmt>> ELSE <<stmt>>]

\* squirrel's ExecContext: the builder refuses a statement without a Set
\* clause before anything is sent; otherwise one statement goes to the
\* runner, which may fail before it reaches the store
ExecContext(tbls, stmt, execFault) ==
    IF DOMAIN stmt.set = {}
    THEN [err |-> <<"statements must have at least one Set clause">>,
          rows |-> 0, tables |-> tbls, submitted |-> <<>>]
    ELSE IF execFault
    THEN [err |-> <<"driver: bad connection">>,
          rows |-> 0, tables |-> tbls, submitted |-> <<stmt>>]
    ELSE LET r == Execute(tbls, stmt)
         IN [err |-> r.err, rows |-> r.rows, tables |-> r.tables,
             submitted |-> <<stmt>>]

\* res.RowsAffected()
RowsAffected(res, rowsFault) ==
    IF rowsFault THEN [n |-> 0, err |-> <<"RowsAffected is not supported">>]
    ELSE [n |-> res.rows, err |-> NoError]

(***************************************************************************)
(* InsertProduct and UpdateProduct.                                        *)
(***************************************************************************)
InsertStatement(product) ==
    [op |-> "insert", table |-> "products", set |-> InsertMap(product),
     where |-> EmptyMap]

\* an update statement addressed to the relation InsertProduct fills
UpdateStatementOnProducts(version, id, changeSet) ==
    [op |-> "update", table |-> "products", set |-> toMap(version, changeSet),
     where |-> [k \in {"product_id"} |-> id]]

UpdateStatement(version, id, changeSet) ==
    [op |-> "update", table |-> "gamers", set |-> toMap(version, changeSet),
     where |-> [k \in {"gamer_id"} |-> id]]

\* UpdateProduct with the count check narrowed to "no row"
UpdateProductReturnZeroOnly(execErr, affected) ==
    IF execErr # NoError THEN Wrap("executing update: ", execErr)
    ELSE IF affected.err # NoError THEN Wrap("getting affected rows: ", affected.err)
    ELSE IF affected.n = 0
    THEN <<"update affected ", ToString(affected.n), " rows, but expected exactly 1">>
    ELSE affected.err

\* what UpdateProduct returns, given what ExecContext and RowsAffected gave
UpdateProductReturn(execErr, affected) ==
    IF execErr # NoError THEN Wrap("executing update: ", execErr)
    ELSE IF affected.err # NoError THEN Wrap("getting affected rows: ", affected.err)
    ELSE IF affected.n # 1
    THEN <<"update affected ", ToString(affected.n), " rows, but expected exactly 1">>
    ELSE affected.err


NotAsked == [n |-> 0, err |-> NoError]

NoCall ==
    [op |-> "none", id |-> Nil, input |-> EmptyMap, map |-> EmptyMap,
     submitted |-> <<>>, execErr |-> NoError, affected |-> NotAsked,
     asked |-> FALSE, err |-> NoError, before |-> EmptyMap,
     execFault |-> FALSE, rowsFault |-> FALSE]

FirstId == CHOOSE id \in Ids : TRUE

GamerRow(id) == [gamer_id |-> ConvertValue(GoUUID(id)), name |-> GoString("gamer")]

\* the stores a caller may hand in: all follow schema.sql; some also hold a
\* gamers relation, with up to MaxGamers gamers under one identifier
Stores ==
    {[products |-> <<>>]} \cup
    {[products |-> <<>>, gamers |-> [i \in 1..n |-> GamerRow(FirstId)]] :
        n \in 0..MaxGamers}

\* the repository in use, no generator process
RepoInit ==
    /\ build \in {"handwritten", "generated"}
    /\ tables \in Stores
    /\ call = NoCall
    /\ generator = WithToMap
    /\ source = ProductStruct /\ pc = "idle" /\ osArgs = <<>> /\ proc = [idle |-> TRUE]
    /\ exitCode = -1 /\ stderr = <<>> /\ stages = <<>> /\ fs = EmptyMap
    /\ prev = [ok |-> FALSE] /\ runs = 0

InsertProduct(product, execFault) ==
    /\ call.op = "none"
    /\ LET stmt == InsertStatement(product)
           res == ExecContext(tables, stmt, execFault)
       IN /\ tables' = res.tables
          /\ call' = [op |-> "InsertProduct", id |-> product["ID"], input |-> product,
                      map |-> stmt.set, submitted |-> res.submitted,
                      execErr |-> res.err, affected |-> NotAsked, asked |-> FALSE,
                      err |-> res.err, before |-> tables,
                      execFault |-> execFault, rowsFault |-> FALSE]
    /\ UNCHANGED build
    /\ UNCHANGED genVars

UpdateProduct(id, changeSet, execFault, rowsFault) ==
    /\ call.op = "none"
    /\ LET stmt == UpdateStatement(build, id, changeSet)
           res == ExecContext(tables, stmt, execFault)
           asked == res.err = NoError
           affected == IF asked THEN RowsAffected(res, rowsFault) ELSE NotAsked
       IN /\ rowsFault => asked
          /\ tables' = res.tables
          /\ call' = [op |-> "UpdateProduct", id |-> id, input |-> changeSet,
                      map |-> stmt.set, submitted |-> res.submitted,
                      execErr |-> res.err, affected |-> affected, asked |-> asked,
                      err |-> UpdateProductReturn(res.err, affected),
                      before |-> tables,
                      execFault |-> execFault, rowsFault |-> rowsFault]
    /\ UNCHANGED build
    /\ UNCHANGED genVars

\* the call returns to its caller
Return ==
    /\ call.op # "none"
    /\ call' = NoCall
    /\ UNCHANGED <<build, tables>>
    /\ UNCHANGED genVars

\* the change-set values of each build's ProductChangeSet type
HandwrittenChangeSets == ChangeSets("handwritten")
GeneratedChangeSets == ChangeSets("generated")
ChangeSetsOf(version) ==
    IF version = "handwritten" THEN HandwrittenChangeSets ELSE GeneratedChangeSets

\* a single-threaded caller: one call at a time
CallInsert ==
    /\ call.op = "none"
    /\ \E product \in Products, execFault \in BOOLEAN :
          InsertProduct(product, execFault)

CallUpdate ==
    /\ call.op = "none"
    /\ \E id \in Ids, changeSet \in ChangeSetsOf(build), execFault, rowsFault \in BOOLEAN :
          UpdateProduct(GoUUID(id), changeSet, execFault, rowsFault)

RepoNext == CallInsert \/ CallUpdate \/ Return

RepoSpec == RepoInit /\ [][RepoNext]_vars


(***************************************************************************)
(* Properties of the repository operations.                                *)
(***************************************************************************)
\* the row of a relation stored under a product identifier
StoredUnder(tbls, id) ==
    {i \in 1..Len(tbls.products) : tbls.products[i]["product_id"] = ConvertValue(id)}

TaggedFields(structType) ==
    {i \in 1..Len(structType) : TagGet(structType[i].tag, <<"c", "o", "l">>) # <<>>}

\* C1: UpdateProduct returns a non-nil error exactly when the execution
\* failed, or the affected-row count could not be retrieved, or the count is
\* not 1; it returns nil only when the execution succeeded, the count was
\* retrieved and the count is 1.
C1_UpdateErrorExactlyThreeCases ==
    call.op = "UpdateProduct" =>
        /\ (call.err # NoError) <=>
              \/ call.execErr # NoError
              \/ call.asked /\ call.affected.err # NoError
              \/ call.asked /\ call.affected.err = NoError /\ call.affected.n # 1
        /\ (call.err = NoError) =>
              /\ call.execErr = NoError
              /\ call.asked /\ call.affected.err = NoError
              /\ call.affected.n = 1

\* an update that ran, had its count retrieved, and hit more than one row
C1_Witness ==
    /\ call.op = "UpdateProduct"
    /\ call.execErr = NoError
    /\ call.asked /\ call.affected.err = NoError
    /\ call.affected.n > 1
    /\ call.err # NoError

\* C2: after InsertProduct stored a record under X, UpdateProduct(X, cs) with
\* at least one field of cs set returns no error (the runner working), and
\* the stored record then has every set field's value and, for every unset
\* field, the value it had before.
C2_UpdateOverwritesSetFieldsOnly ==
    ( /\ call.op = "UpdateProduct"
      /\ ~call.execFault /\ ~call.rowsFault
      /\ StoredUnder(call.before, call.id) # {}
      /\ SetFields(call.input) # {} )
    => /\ call.err = NoError
       /\ \A i \in StoredUnder(call.before, call.id) :
             \A f \in DOMAIN call.input :
                IF call.input[f] # Nil
                THEN tables.products[i][ColumnOf(f)] = ConvertValue(call.input[f])
                ELSE tables.products[i][ColumnOf(f)] = call.before.products[i][ColumnOf(f)]

\* C3: every update statement UpdateProduct submits names the relation
\* InsertProduct inserts into, and filters on the column that holds the
\* record's identifier.
C3_UpdateAddressesProducts ==
    \A i \in 1..Len(call.submitted) :
        call.submitted[i].op = "update" =>
            /\ call.submitted[i].table = "products"
            /\ \A p \in Products : call.submitted[i].table = InsertStatement(p).table
            /\ DOMAIN call.submitted[i].where = {ColumnOf("ID")}

\* C4: the mapping toMap returns has as keys exactly the columns of the
\* fields that are set, and under each key the value the field points to,
\* not the pointer.
C4_ToMapKeysAndDereferencedValues ==
    call.op = "UpdateProduct" =>
        /\ DOMAIN call.map = {ColumnOf(f) : f \in SetFields(call.input)}
        /\ \A f \in SetFields(call.input) :
              /\ ColumnOf(f) \in DOMAIN call.map
              /\ call.map[ColumnOf(f)] = Deref(call.input[f])

\* C5: the mapping InsertProduct submits has exactly one entry per tagged
\* attribute of Product, under the attribute's col tag value and holding the
\* attribute's value; it is the mapping InsertProductReflect builds.
C5_InsertMapMatchesTags ==
    call.op = "InsertProduct" =>
        /\ DOMAIN call.map =
              {Flatten(TagGet(ProductStruct[i].tag, <<"c", "o", "l">>)) :
                  i \in TaggedFields(ProductStruct)}
        /\ Cardinality(DOMAIN call.map) = Cardinality(TaggedFields(ProductStruct))
        /\ \A i \in TaggedFields(ProductStruct) :
              call.map[Flatten(TagGet(ProductStruct[i].tag, <<"c", "o", "l">>))]
                 = call.input[ProductStruct[i].name]
        /\ call.map = ReflectMap(ProductStruct, 1, call.input)
        /\ \A i \in 1..Len(call.submitted) : call.submitted[i].set = call.map

\* an insert of a product with every attribute set, which the store took
C5_Witness ==
    /\ call.op = "InsertProduct"
    /\ call.err = NoError
    /\ call.input["Name"] = GoString("Cheddar cheese")
    /\ Len(call.submitted) = 1

\* C6: with every field of the change-set unset, toMap returns the empty
\* mapping, UpdateProduct returns an error or leaves the store as it was,
\* and no statement it submits sets a column.
C6_EmptyChangeSet ==
    (call.op = "UpdateProduct" /\ SetFields(call.input) = {}) =>
        /\ call.map = EmptyMap
        /\ (call.err # NoError \/ tables = call.before)
        /\ \A i \in 1..Len(call.submitted) : DOMAIN call.submitted[i].set = {}

\* an update with an all-unset change-set, for a stored product
C6_Witness ==
    /\ call.op = "UpdateProduct"
    /\ SetFields(call.input) = {}
    /\ StoredUnder(call.before, call.id) # {}
    /\ call.err # NoError


(***************************************************************************)
(* The generator process (cmd/generator): what it is run on.               *)
(***************************************************************************)
MaxArgLen == 5
MaxRuns == 2

\* the characters arguments are made of
ArgChars == {".", "d", "P"}

ArgStrings == UNION {[1..n -> ArgChars] : n \in 0..MaxArgLen}

ProgramName == <<"g", "e", "n", "e", "r", "a", "t", "o", "r">>

\* os.Args: no argument, one argument, or two (the second a one-letter one)
ArgLists ==
    {<<ProgramName>>} \cup {<<ProgramName, a>> : a \in ArgStrings}
                      \cup {<<ProgramName, a, <<c>> >> : a \in {<<"d", ".", "P">>},
                                                        c \in ArgChars}

\* GOPACKAGE: set by go generate, empty when the tool is run by hand
GoPackages == {"repository", ""}

\* GOFILE
GoFiles == { <<"m", ".", "g", "o">>, <<"m">>, <<"a", ".", "m", ".", "g", "o">>,
             <<"m", ".", "t">> }

UnsupportedKinds == {"Struct", "Slice", "Pointer", "Map"}

PlainTag(name) == <<"j", "s", "o", "n", ":", "\"">> \o name \o <<"\"">>

\* the structs P is declared as: domain.Product; structs with fields of
\* unsupported shapes; fields without a col tag; a field of type error;
\* no field at all
Sources ==
    {ProductStruct, <<>>}
    \cup { << Field("A", Basic("string"), ColTag(<<"a">>)),
              Field("B", Composite(k), ColTag(<<"b">>)),
              Field("C", Composite("Map"), <<>>) >> : k \in UnsupportedKinds }
    \cup { << Field("A", Basic("string"), PlainTag(<<"a">>)),
              Field("B", Basic("int"), ColTag(<<"b">>)),
              Field("C", Basic("bool"), <<>>),
              Field("D", Named(UuidPath, "UUID"), ColTag(<<>>)),
              Field("E", Basic("string"),
                    PlainTag(<<"e">>) \o <<" ">> \o ColTag(<<"x">>)) >> }
    \cup { << Field("A", Named(NoPkg, "error"), ColTag(<<"a">>)) >>,
           << Field("A", Named(NoPkg, "error"), ColTag(<<"a">>)),
              Field("B", Composite("Slice"), ColTag(<<"b">>)) >> }

TypeNameObj(pkgPath, name, underlying) ==
    [class |-> "TypeName", pkg |-> pkgPath, name |-> name, underlying |-> underlying]
VarObj(pkgPath, name, type) ==
    [class |-> "Var", pkg |-> pkgPath, name |-> name, underlying |-> type]
NilObj == [class |-> "nil"]

StructOf(fields) == [kind |-> "Struct", fields |-> fields]

\* the packages packages.Load can resolve, each with its declaration scope:
\* d.d declares type P (the source struct) and a variable d; d declares a
\* one-field struct P, type PP int and a variable d
Universe(src) ==
    [path \in {"d.d", "d"} |->
        IF path = "d.d"
        THEN [name \in {"P", "d"} |->
                IF name = "P" THEN TypeNameObj("d.d", "P", StructOf(src))
                ELSE VarObj("d.d", "d", StructOf(src))]
        ELSE [name \in {"P", "PP", "d"} |->
                CASE name = "P" ->
                        TypeNameObj("d", "P",
                            StructOf(<< Field("Name", Basic("string"), ColTag(<<"n">>)) >>))
                  [] name = "PP" -> TypeNameObj("d", "PP", Basic("int"))
                  [] OTHER -> VarObj("d", "d", Basic("int"))]]

(***************************************************************************)
(* The generator process: main, stage by stage.                            *)
(***************************************************************************)
NoExit == -1

NoProc ==
    [sourceTypePackage |-> <<>>, sourceTypeName |-> <<>>, pkg |-> "",
     obj |-> NilObj, structType |-> <<>>, goPackage |-> "", fields |-> <<>>,
     file |-> <<>>, goFile |-> <<>>, target |-> "", fs0 |-> EmptyMap]

NoPrev == [ok |-> FALSE]

\* a failErr that prints the message and ends the process with exit code 0
FailErrExitZero(msg) ==
    /\ stderr' = Append(stderr, <<"Error: ">> \o msg)
    /\ exitCode' = 0
    /\ pc' = "exited"

\* failErr(err) with a non-nil err: the message on stderr, exit code 1
FailErr(msg) ==
    /\ stderr' = Append(stderr, <<"Error: ">> \o msg)
    /\ exitCode' = 1
    /\ pc' = "exited"

splitSourceType(sourceType) ==
    LET idx == LastIndexByte(sourceType, ".")
    IN IF idx = -1
       THEN [ok |-> FALSE,
             err |-> <<"expected qualified type as \"pkg/path.MyType\"">>]
       ELSE [ok |-> TRUE,
             sourceTypePackage |-> Slice(sourceType, 0, idx),
             sourceTypeName |-> Slice(sourceType, idx + 1, Len(sourceType))]

\* the three checks of main on the looked-up object, without the last one
lookupTypeAnyUnderlying(scope, name) ==
    LET obj == IF name \in DOMAIN scope THEN scope[name] ELSE NilObj
    IN IF obj = NilObj
       THEN [ok |-> FALSE, obj |-> obj,
             err |-> <<name, " not found in declared types of package">>]
       ELSE IF obj.class # "TypeName"
       THEN [ok |-> FALSE, obj |-> obj, err |-> <<obj.name, " is not a named type">>]
       ELSE [ok |-> TRUE, obj |-> obj,
             structType |-> IF obj.underlying.kind = "Struct"
                            THEN obj.underlying.fields ELSE <<>>]

\* pkg.Types.Scope().Lookup(sourceTypeName) and the three checks of main
lookupType(scope, name) ==
    LET obj == IF name \in DOMAIN scope THEN scope[name] ELSE NilObj
    IN IF obj = NilObj
       THEN [ok |-> FALSE, obj |-> obj,
             err |-> <<name, " not found in declared types of package">>]
       ELSE IF obj.class # "TypeName"
       THEN [ok |-> FALSE, obj |-> obj, err |-> <<obj.name, " is not a named type">>]
       ELSE IF obj.underlying.kind # "Struct"
       THEN [ok |-> FALSE, obj |-> obj,
             err |-> <<"type ", obj.name, " is not a struct">>]
       ELSE [ok |-> TRUE, obj |-> obj, structType |-> obj.underlying.fields]

\* a write that adds to what the file already holds
WriteFileAppend(files, name, content) ==
    [n \in (DOMAIN files) \cup {name} |->
        IF n # name THEN files[n]
        ELSE IF name \in DOMAIN files THEN <<files[name], content>> ELSE content]

\* ioutil.WriteFile: the file is created or truncated, then holds content
WriteFile(files, name, content) ==
    [n \in (DOMAIN files) \cup {name} |-> IF n = name THEN content ELSE files[n]]

\* what a file holds when writing it failed after it was opened
Truncated == [truncated |-> TRUE]

\* a process is started
StartRun(args) ==
    /\ pc = "idle"
    /\ runs < MaxRuns
    /\ runs' = runs + 1
    /\ osArgs' = args
    /\ proc' = [NoProc EXCEPT !.fs0 = fs]
    /\ pc' = "args"
    /\ UNCHANGED <<generator, source, exitCode, stderr, stages, fs, prev>>
    /\ UNCHANGED repoVars

\* the process is gone; what is left of it is its files and, when it ended
\* with exit code 0, what it was run with
Reap ==
    /\ pc = "exited"
    /\ prev' = IF exitCode = 0
               THEN [ok |-> TRUE, osArgs |-> osArgs, goPackage |-> proc.goPackage,
                     goFile |-> proc.goFile, target |-> proc.target, fs |-> fs]
               ELSE [ok |-> FALSE]
    /\ pc' = "idle"
    /\ osArgs' = <<>>
    /\ proc' = NoProc
    /\ exitCode' = NoExit
    /\ stderr' = <<>>
    /\ stages' = <<>>
    /\ UNCHANGED <<generator, source, fs, runs>>
    /\ UNCHANGED repoVars

\* main: the argument count and splitSourceType
ValidateArgs ==
    /\ pc = "args"
    /\ stages' = Append(stages, "args")
    /\ IF Len(osArgs) # 2
       THEN /\ FailErr(<<"expected exactly one argument: <source type>">>)
            /\ UNCHANGED proc
       ELSE LET r == splitSourceType(osArgs[2])
            IN IF ~r.ok
               THEN FailErr(r.err) /\ UNCHANGED proc
               ELSE /\ proc' = [proc EXCEPT !.sourceTypePackage = r.sourceTypePackage,
                                            !.sourceTypeName = r.sourceTypeName]
                    /\ pc' = "load"
                    /\ UNCHANGED <<exitCode, stderr>>
    /\ UNCHANGED <<generator, source, osArgs, fs, prev, runs>>
    /\ UNCHANGED repoVars

\* loadPackage
LoadPackage(loadFault) ==
    /\ pc = "load"
    /\ stages' = Append(stages, "load")
    /\ LET path == Flatten(proc.sourceTypePackage)
       IN IF loadFault
          THEN /\ FailErr(<<"loading packages for inspection: ", "driver failed">>)
               /\ UNCHANGED proc
          ELSE IF path \notin DOMAIN Universe(source)
          THEN \* packages.PrintErrors(pkgs) > 0: the errors on stderr, os.Exit(1)
               /\ stderr' = Append(stderr, <<path, ": package not found">>)
               /\ exitCode' = 1
               /\ pc' = "exited"
               /\ UNCHANGED proc
          ELSE /\ proc' = [proc EXCEPT !.pkg = path]
               /\ pc' = "lookup"
               /\ UNCHANGED <<exitCode, stderr>>
    /\ UNCHANGED <<generator, source, osArgs, fs, prev, runs>>
    /\ UNCHANGED repoVars

\* main: the lookup of the type name and the checks on what was found
LookupType ==
    /\ pc = "lookup"
    /\ stages' = Append(stages, "lookup")
    /\ LET r == lookupType(Universe(source)[proc.pkg], Flatten(proc.sourceTypeName))
       IN IF ~r.ok
          THEN FailErr(r.err) /\ proc' = [proc EXCEPT !.obj = r.obj]
          ELSE /\ proc' = [proc EXCEPT !.obj = r.obj, !.structType = r.structType]
               /\ pc' = "fields"
               /\ UNCHANGED <<exitCode, stderr>>
    /\ UNCHANGED <<generator, source, osArgs, fs, prev, runs>>
    /\ UNCHANGED repoVars

\* generate: GOPACKAGE, the new file, the loop over the fields that builds
\* the change-set type
EnumerateFields(goPackage) ==
    /\ pc = "fields"
    /\ stages' = Append(stages, "fields")
    /\ LET r == ChangeSetFields(proc.structType, 1, <<>>)
       IN CASE r.status = "error" ->
                  FailErr(r.err) /\ proc' = [proc EXCEPT !.goPackage = goPackage]
            [] r.status = "panic" ->
                  /\ stderr' = Append(stderr,
                        <<"panic: runtime error: invalid memory address or nil pointer dereference">>)
                  /\ exitCode' = 2
                  /\ pc' = "exited"
                  /\ proc' = [proc EXCEPT !.goPackage = goPackage]
            [] OTHER ->
                  /\ IF generator = WithToMap
                     THEN /\ proc' = [proc EXCEPT !.goPackage = goPackage,
                                                  !.fields = r.fields]
                          /\ pc' = "tomap"
                     ELSE /\ proc' = [proc EXCEPT
                                        !.goPackage = goPackage, !.fields = r.fields,
                                        !.file = ChangeSetOnlyFile(goPackage,
                                                     proc.sourceTypeName, r.fields)]
                          /\ pc' = "save"
                  /\ UNCHANGED <<exitCode, stderr>>
    /\ UNCHANGED <<generator, source, osArgs, fs, prev, runs>>
    /\ UNCHANGED repoVars

\* generate: the loop over the tags that builds toMap
EmitToMap ==
    /\ pc = "tomap"
    /\ stages' = Append(stages, "tomap")
    /\ proc' = [proc EXCEPT !.file =
                   GeneratedFile(proc.goPackage, proc.sourceTypeName,
                                 proc.structType, proc.fields)]
    /\ pc' = "save"
    /\ UNCHANGED <<generator, source, osArgs, exitCode, stderr, fs, prev, runs>>
    /\ UNCHANGED repoVars

\* generate: GOFILE, the target file name, f.Save; then main returns
Save(goFile, ioFault) ==
    /\ pc = "save"
    /\ stages' = Append(stages, "save")
    /\ LET target == TargetFilename(goFile, proc.sourceTypeName)
       IN /\ proc' = [proc EXCEPT !.goFile = goFile, !.target = target]
          /\ IF proc.file.package = ""
             THEN \* the rendered source does not parse: nothing is written
                  /\ FailErr(<<"Error while formatting source">>)
                  /\ UNCHANGED fs
             ELSE CASE ioFault = "open" ->
                        FailErr(<<"open ", target, ": permission denied">>) /\ UNCHANGED fs
                    [] ioFault = "write" ->
                        /\ FailErr(<<"write ", target, ": no space left on device">>)
                        /\ fs' = WriteFile(fs, target, Truncated)
                    [] OTHER ->
                        /\ fs' = WriteFile(fs, target, proc.file)
                        /\ exitCode' = 0
                        /\ pc' = "exited"
                        /\ UNCHANGED stderr
    /\ UNCHANGED <<generator, source, osArgs, prev, runs>>
    /\ UNCHANGED repoVars

\* the generator alone, the repository package not in use
GenInit ==
    /\ build = "generated" /\ tables = [products |-> <<>>] /\ call = NoCall
    /\ generator \in Generators
    /\ source \in Sources
    /\ pc = "idle"
    /\ osArgs = <<>>
    /\ proc = NoProc
    /\ exitCode = NoExit
    /\ stderr = <<>>
    /\ stages = <<>>
    /\ fs = EmptyMap
    /\ prev = NoPrev
    /\ runs = 0

GenNext ==
    \/ \E args \in ArgLists : StartRun(args)
    \/ ValidateArgs
    \/ \E loadFault \in BOOLEAN : LoadPackage(loadFault)
    \/ LookupType
    \/ \E goPackage \in GoPackages : EnumerateFields(goPackage)
    \/ EmitToMap
    \/ \E goFile \in GoFiles, ioFault \in {"none", "open", "write"} : Save(goFile, ioFault)
    \/ Reap

GenSpec == GenInit /\ [][GenNext]_vars


(***************************************************************************)
(* Properties of the generator.                                            *)
(***************************************************************************)
Ran(stage) == stage \in Range(stages)

Unsupported(structType) ==
    {i \in 1..Len(structType) : structType[i].type.kind \notin {"Basic", "Named"}}

FirstUnsupported(structType) ==
    CHOOSE i \in Unsupported(structType) : \A j \in Unsupported(structType) : i <= j

\* C7: a run that ends with exit code 0 right after a run that ended with
\* exit code 0 on the same arguments, GOFILE and GOPACKAGE (the source
\* struct unchanged) wrote the same file with the same content: the files
\* are what they were after the first run.
C7_SecondRunRewritesSameFile ==
    ( /\ pc = "exited" /\ exitCode = 0
      /\ prev.ok
      /\ prev.osArgs = osArgs
      /\ prev.goFile = proc.goFile
      /\ prev.goPackage = proc.goPackage )
    => /\ proc.target = prev.target
       /\ fs[proc.target] = prev.fs[prev.target]
       /\ DOMAIN fs = DOMAIN prev.fs
       /\ fs = prev.fs

\* the second of two successful runs on domain.Product's struct
C7_Witness ==
    /\ pc = "exited" /\ exitCode = 0
    /\ source = ProductStruct
    /\ prev.ok
    /\ prev.osArgs = osArgs /\ osArgs[2] = <<"d", ".", "d", ".", "P">>
    /\ prev.goFile = proc.goFile
    /\ prev.goPackage = proc.goPackage

\* C8: when the source struct has a field of an unsupported shape, the
\* generator ends with a non-zero exit code and a diagnostic on stderr that
\* names the (first) offending field's type, and writes no file.
C8_UnsupportedFieldDiagnosed ==
    (Ran("fields") /\ Unsupported(proc.structType) # {}) =>
        /\ pc = "exited"
        /\ exitCode \notin {0, NoExit}
        /\ \E l \in 1..Len(stderr) :
              TypeT(proc.structType[FirstUnsupported(proc.structType)].type)
                 \in Range(stderr[l])
        /\ fs = proc.fs0

\* C8, for structs whose fields before the offending one all generate: as
\* above, and the exit code is 1
C8_UnsupportedFieldDiagnosedUnlessPanicBefore ==
    ( /\ Ran("fields") /\ Unsupported(proc.structType) # {}
      /\ \A i \in 1..(FirstUnsupported(proc.structType) - 1) :
            proc.structType[i].type.kind = "Named" =>
                proc.structType[i].type.pkg # NoPkg )
    => /\ pc = "exited"
       /\ exitCode = 1
       /\ stderr = << <<"Error: ", "struct field type not hanled: ",
                        TypeT(proc.structType[FirstUnsupported(proc.structType)].type)>> >>
       /\ ~Ran("tomap") /\ ~Ran("save")
       /\ fs = proc.fs0

\* C9: with an argument count other than one, or an argument without a '.',
\* the generator exits non-zero with a diagnostic before any package is
\* loaded; otherwise the package path is what precedes the last '.' of the
\* argument and the type name what follows it.
C9_ArgumentValidation ==
    Ran("args") =>
        IF Len(osArgs) # 2 \/ "." \notin Range(osArgs[IF Len(osArgs) >= 2 THEN 2 ELSE 1])
        THEN /\ pc = "exited"
             /\ exitCode = 1
             /\ Len(stderr) = 1
             /\ stages = <<"args">>
        ELSE /\ proc.sourceTypePackage \o <<".">> \o proc.sourceTypeName = osArgs[2]
             /\ "." \notin Range(proc.sourceTypeName)
             /\ (stages = <<"args">> => pc = "load" /\ exitCode = NoExit)

\* an argument with two dots was accepted and split
C9_Witness ==
    /\ pc = "load"
    /\ osArgs = <<ProgramName, <<"d", ".", "d", ".", "P">> >>
    /\ proc.sourceTypePackage = <<"d", ".", "d">>
    /\ proc.sourceTypeName = <<"P">>

\* what the scope of the loaded package holds under the type name
LookedUp ==
    LET scope == Universe(source)[proc.pkg]
        name == Flatten(proc.sourceTypeName)
    IN IF name \in DOMAIN scope THEN scope[name] ELSE NilObj

IsNamedStruct(obj) ==
    /\ obj # NilObj
    /\ obj.class = "TypeName"
    /\ obj.underlying.kind = "Struct"

\* C10: once the package is loaded, a type name that is absent from its
\* scope, or is not a named type, or whose underlying type is not a struct
\* ends the generator with exit code 1 and a diagnostic, before generate;
\* generate runs only for a named type whose underlying type is a struct.
C10_TypeLookupChecks ==
    /\ (Ran("lookup") /\ ~IsNamedStruct(LookedUp)) =>
          /\ pc = "exited"
          /\ exitCode = 1
          /\ Len(stderr) = 1
          /\ stages = <<"args", "load", "lookup">>
          /\ fs = proc.fs0
    /\ (Ran("fields") \/ pc = "fields") =>
          /\ IsNamedStruct(LookedUp)
          /\ proc.structType = LookedUp.underlying.fields

\* the lookup found a named type that is not a struct
C10_Witness ==
    /\ pc = "exited"
    /\ stages = <<"args", "load", "lookup">>
    /\ LookedUp # NilObj
    /\ LookedUp.class = "TypeName"
    /\ LookedUp.underlying.kind # "Struct"
    /\ exitCode = 1

(***************************************************************************)
(* Properties of the emitted file.                                         *)
(***************************************************************************)
\* the files whose writing was completed
WrittenFiles == {n \in DOMAIN fs : fs[n] # Truncated}

DeclsOf(file, what) == {i \in 1..Len(file.decls) : file.decls[i].decl = what}

\* a file holds the notice comment, one type declaration, named name, and
\* one function, the method toMap on that type
HasNoticeTypeAndToMap(file, name) ==
    /\ file.comment = "Code generated by generator, DO NOT EDIT."
    /\ Cardinality(DeclsOf(file, "type")) = 1
    /\ \A i \in DeclsOf(file, "type") : file.decls[i].name = name
    /\ Cardinality(DeclsOf(file, "func")) = 1
    /\ \A i \in DeclsOf(file, "func") :
          file.decls[i].name = "toMap" /\ file.decls[i].recv = name

\* C11: every file the generator writes contains the machine-generated
\* notice comment, one type declaration named <TypeName>ChangeSet and
\* exactly one conversion function, toMap, on that type.
C11_WrittenFileContents ==
    /\ \A n \in WrittenFiles :
          \E i \in 1..Len(fs[n].decls) :
              HasNoticeTypeAndToMap(fs[n], fs[n].decls[i].name)
    /\ (pc = "exited" /\ exitCode = 0) =>
          /\ proc.target \in WrittenFiles
          /\ HasNoticeTypeAndToMap(fs[proc.target],
                                   Flatten(proc.sourceTypeName) \o "ChangeSet")

\* C11, for the generator that has the toMap stage
C11_WrittenFileContentsWithToMap ==
    generator = WithToMap => C11_WrittenFileContents

\* the notice and the type declaration are in every written file, of
\* either generator
C11_NoticeAndTypeInEveryFile ==
    \A n \in WrittenFiles :
        /\ fs[n].comment = "Code generated by generator, DO NOT EDIT."
        /\ Cardinality(DeclsOf(fs[n], "type")) = 1
        /\ fs[n].decls[1].decl = "type"
        /\ fs[n].decls[1].name = "PChangeSet"

(***************************************************************************)
(* Properties of the target file name.                                     *)
(***************************************************************************)
\* where the extension of a file name starts: at its last '.', or past its
\* end when it has none (the file names here have no directory part)
ExtStart(name) ==
    IF "." \notin Range(name) THEN Len(name) + 1
    ELSE CHOOSE i \in 1..Len(name) :
            name[i] = "." /\ \A j \in (i + 1)..Len(name) : name[j] # "."

\* the type names of the packages are made of 'P' and 'd'
LowerCased(name) == [i \in 1..Len(name) |-> IF name[i] = "P" THEN "p" ELSE name[i]]

\* <GOFILE without extension>_<lower-cased type name>
TargetStem(goFile, typeName) ==
    Flatten(SubSeq(goFile, 1, ExtStart(goFile) - 1)) \o "_"
        \o Flatten(LowerCased(typeName))

\* the type name the run before this one was given
PrevTypeName == splitSourceType(prev.osArgs[2]).sourceTypeName

\* C12 as stated: the target file name is GOFILE without its extension,
\* "_", the lower-cased type name, "_gen." and the extension of GOFILE; two
\* runs with the same GOFILE and type name name the same file.
C12_TargetNameWithSourceExtension ==
    Ran("save") =>
        /\ proc.target =
              TargetStem(proc.goFile, proc.sourceTypeName) \o "_gen."
                 \o Flatten(SubSeq(proc.goFile, ExtStart(proc.goFile) + 1,
                                   Len(proc.goFile)))
        /\ (prev.ok /\ prev.goFile = proc.goFile
                    /\ PrevTypeName = proc.sourceTypeName)
              => proc.target = prev.target

\* C12, amended: the target file name is GOFILE without its extension, "_",
\* the lower-cased type name and the fixed suffix "_gen.go", whatever the
\* extension of GOFILE is; two runs with the same GOFILE and type name name
\* the same file, whatever package path they were given.
C12_TargetNameFixedSuffix ==
    Ran("save") =>
        /\ proc.target = TargetStem(proc.goFile, proc.sourceTypeName) \o "_gen.go"
        /\ (prev.ok /\ prev.goFile = proc.goFile
                    /\ PrevTypeName = proc.sourceTypeName)
              => proc.target = prev.target

\* a second run on a GOFILE with two dots, the type named through another
\* package path than in the first run
C12_Witness ==
    /\ Ran("save") /\ exitCode = 0
    /\ proc.goFile = <<"a", ".", "m", ".", "g", "o">>
    /\ proc.target = "a.m_p_gen.go"
    /\ prev.ok /\ prev.goFile = proc.goFile
    /\ prev.osArgs # osArgs
    /\ PrevTypeName = proc.sourceTypeName

(***************************************************************************)
(* Properties of the change-set type.                                      *)
(***************************************************************************)
\* the fields of the ProductChangeSet type of a build, in declaration order
ChangeSetFieldSeq(version) ==
    IF version = "handwritten" THEN HandwrittenChangeSetFields
    ELSE GeneratedChangeSetFields

HasColTag(field) == TagGet(field.tag, <<"c", "o", "l">>) # <<>>

\* the names of the attributes of a record that carry a column tag, in
\* declaration order
TaggedNames(structType) ==
    LET tagged == SelectSeq(structType, HasColTag)
    IN [i \in 1..Len(tagged) |-> tagged[i].name]

\* C13: the change-set type in use has exactly one optional-valued field per
\* tagged attribute of domain.Product, in the same order: its field names
\* are the tagged attributes' names, and a field holds nil or a pointer to a
\* value of the attribute's type.
C13_ChangeSetFieldPerTaggedAttribute ==
    call.op = "UpdateProduct" =>
        /\ ChangeSetFieldSeq(build) = TaggedNames(ProductStruct)
        /\ DOMAIN call.input = Range(TaggedNames(ProductStruct))
        /\ \A f \in DOMAIN call.input :
              \/ call.input[f] = Nil
              \/ /\ call.input[f].t = "ptr"
                 /\ call.input[f].to.t = ZeroValue(FieldOf(ProductStruct, f).type).t

\* C13 holds of the generated ProductChangeSet
C13_GeneratedChangeSetFieldPerTaggedAttribute ==
    build = "generated" => C13_ChangeSetFieldPerTaggedAttribute

StageOrder ==
    IF generator = WithToMap
    THEN <<"args", "load", "lookup", "fields", "tomap", "save">>
    ELSE <<"args", "load", "lookup", "fields", "save">>

\* the stages run so far are the first stages of the order, each once
StagesInOrder ==
    /\ Len(stages) <= Len(StageOrder)
    /\ stages = SubSeq(StageOrder, 1, Len(stages))

\* C15, in every state: the stages run once each in order; a message on
\* stderr comes with the end of the process and a non-zero exit code, and a
\* non-zero exit code with a message; files change only in the last stage,
\* after every earlier stage ran without failure; exit code 0 only after
\* the file was written.
C15_StateInvariant ==
    /\ StagesInOrder
    /\ (stderr # <<>>) => (pc = "exited" /\ exitCode \notin {0, NoExit})
    /\ (pc = "exited" /\ exitCode # 0) => (exitCode > 0 /\ Len(stderr) = 1)
    /\ (pc = "exited") <=> (exitCode # NoExit)
    /\ (pc \notin {"idle", "exited"}) =>
          (stages # StageOrder /\ pc = StageOrder[Len(stages) + 1])
    /\ (pc # "idle" /\ fs # proc.fs0) =>
          (pc = "exited" /\ stages = StageOrder /\ proc.target \in DOMAIN fs)
    /\ (pc = "exited" /\ exitCode = 0) =>
          /\ stages = StageOrder
          /\ proc.target \in DOMAIN fs
          /\ fs[proc.target] = proc.file

\* C15, in every step: a process that has ended runs no further stage and
\* writes nothing more, and a stage that fails is the last one run
C15_Step ==
    /\ (pc = "exited") =>
          (stages' = stages \/ pc' = "idle") /\ fs' = fs /\ stderr' \in {stderr, <<>>}
    /\ (pc' = "exited" /\ pc # "exited") =>
          /\ Len(stages') = Len(stages) + 1
          /\ (exitCode' # 0 => stderr' # stderr)
    /\ (pc' \notin {"idle", "exited"} /\ pc # "idle") =>
          (stderr' = stderr /\ exitCode' = NoExit /\ fs' = fs)

\* C15: the generator is a linear sequence of stages run at most once each
\* in the order argument validation, package loading, type lookup, field
\* enumeration, tag parsing and code emission, file write; a failure in a
\* stage ends the process at once with a non-zero exit code and a message
\* on stderr and no later stage runs; the file is written only after every
\* earlier stage succeeded, and exit code 0 occurs only after it was
\* written.
C15_LinearStagesFailFast == []C15_StateInvariant /\ [][C15_Step]_vars

\* a run that failed in its last stage, at opening the target file
C15_Witness ==
    /\ pc = "exited" /\ exitCode = 1
    /\ stages = StageOrder
    /\ generator = WithToMap
    /\ fs = proc.fs0
    /\ Len(stderr) = 1

(***************************************************************************)
(* Properties of the generated toMap.                                      *)
(***************************************************************************)
\* the statements of the toMap the process built, between make and return
ToMapAssignments ==
    LET body == proc.file.decls[2].body
    IN SubSeq(body, 2, Len(body) - 1)

\* C16: in the file the generator builds, every field of the struct appears
\* in the change-set type, tagged or not; toMap holds one conditional
\* assignment for each field whose tag carries col:"<non-empty name>",
\* keyed by that name, in field declaration order, and no statement for any
\* other field.
C16_UntaggedFieldsSkippedInToMapOnly ==
    (Ran("tomap") /\ DeclsOf(proc.file, "func") # {}) =>
        LET st == proc.structType
            ifs == ToMapAssignments
            body == proc.file.decls[2].body
        IN /\ [i \in 1..Len(st) |-> proc.file.decls[1].fields[i].name]
                 = [i \in 1..Len(st) |-> st[i].name]
           /\ Len(proc.file.decls[1].fields) = Len(st)
           /\ body[1].stmt = "make" /\ body[Len(body)].stmt = "return"
           /\ [j \in 1..Len(ifs) |-> ifs[j].field] = TaggedNames(st)
           /\ \A j \in 1..Len(ifs) :
                 /\ ifs[j].stmt = "if"
                 /\ ifs[j].col =
                       Flatten(TagGet(FieldOf(st, ifs[j].field).tag, <<"c", "o", "l">>))
                 /\ ifs[j].rhs = "*c." \o ifs[j].field

\* toMap was built for a struct with a field tagged json only, a field
\* without tag, a field tagged col:"" and a field tagged json and col
C16_Witness ==
    /\ Ran("tomap") /\ pc = "exited" /\ exitCode = 0
    /\ DeclsOf(proc.file, "func") # {}
    /\ Len(proc.structType) = 5
    /\ proc.structType[1].tag = PlainTag(<<"a">>)
    /\ proc.structType[3].tag = <<>>
    /\ Len(ToMapAssignments) = 2
    /\ ToMapAssignments[2].col = "x"

(***************************************************************************)
(* Properties of the generated change-set type.                            *)
(***************************************************************************)
\* a change-set field is the struct field's name, typed as a pointer to the
\* struct field's type, a named type qualified by its package's path
IsPointerTo(code, field) ==
    /\ code.name = field.name
    /\ code.star
    /\ code.id = field.type.name
    /\ code.qual = IF field.type.kind = "Named" THEN field.type.pkg ELSE ""

\* the field stage has run on a struct whose fields are all of a built-in
\* or a named type
FieldsRanOnSupported ==
    Ran("fields") /\ Unsupported(proc.structType) = {}

\* C17: when every field of the source struct is of a built-in scalar or a
\* named type, generating the change-set fields does not fail, and the
\* change-set type has, position by position, a field of the same name
\* whose type is a pointer to the original type, a named type qualified by
\* the path of the package that defines it.
C17_SupportedFieldsAlwaysGenerate ==
    FieldsRanOnSupported =>
        /\ (pc = "exited" /\ exitCode # 0) => stages[Len(stages)] # "fields"
        /\ Len(proc.fields) = Len(proc.structType)
        /\ \A i \in 1..Len(proc.structType) :
              IsPointerTo(proc.fields[i], proc.structType[i])

\* C17 for structs without a field of a named type of the universe scope
\* (error), which has no package
C17_SupportedFieldsGenerateUnlessNoPackage ==
    (\A i \in 1..Len(proc.structType) :
        proc.structType[i].type.kind = "Named" => proc.structType[i].type.pkg # NoPkg)
    => C17_SupportedFieldsAlwaysGenerate

(***************************************************************************)
(* The two versions of toMap, side by side.                                *)
(***************************************************************************)
\* the change-set of a build that holds an assignment of present and absent
\* values to the attributes of Product: the fields its type has
AsChangeSet(version, assignment) ==
    [f \in ChangeSetFieldNames(version) |->
        IF f \in DOMAIN assignment THEN assignment[f] ELSE Nil]

\* the change-set of the call in progress, as an assignment
CallAssignment == call.input

\* C18: for the assignment of present and absent values an UpdateProduct
\* call was given, the hand-written toMap and the generated toMap return
\* mappings with the same key set and equal values under each key.
C18_ToMapVersionsEquivalent ==
    call.op = "UpdateProduct" =>
        LET hw == HandwrittenToMap(AsChangeSet("handwritten", CallAssignment))
            gen == GeneratedToMap(AsChangeSet("generated", CallAssignment))
        IN /\ DOMAIN hw = DOMAIN gen
           /\ \A k \in DOMAIN hw \cap DOMAIN gen : hw[k] = gen[k]

\* what does hold: when ID is absent, the two mappings have the same keys,
\* and the same values once database/sql has converted them for the driver
C18_ToMapVersionsAgreeAtTheDriver ==
    (call.op = "UpdateProduct" /\ "ID" \notin SetFields(CallAssignment)) =>
        LET hw == HandwrittenToMap(AsChangeSet("handwritten", CallAssignment))
            gen == GeneratedToMap(AsChangeSet("generated", CallAssignment))
        IN /\ DOMAIN hw = DOMAIN gen
           /\ \A k \in DOMAIN hw : ConvertValue(hw[k]) = ConvertValue(gen[k])

(***************************************************************************)
(* What a call submits to the runner.                                      *)
(***************************************************************************)
\* C19 as stated: each call of InsertProduct and of UpdateProduct submits
\* exactly one statement to the runner, on success and on every failure
\* path, and that statement is the insert or the update, not the begin,
\* commit or rollback of a transaction.
C19_ExactlyOneStatementPerCall ==
    call.op # "none" =>
        /\ Len(call.submitted) = 1
        /\ \A i \in 1..Len(call.submitted) :
              call.submitted[i].op = (IF call.op = "InsertProduct" THEN "insert"
                                      ELSE "update")

\* C19, amended: each call submits at most one statement, the insert or the
\* update, on success and on every failure path; InsertProduct submits
\* exactly one, and UpdateProduct exactly one unless no field of the
\* change-set is set, when the statement builder returns an error and
\* nothing is submitted.
C19_AtMostOneStatementPerCall ==
    call.op # "none" =>
        /\ Len(call.submitted) <= 1
        /\ (Len(call.submitted) = 0) <=>
              (call.op = "UpdateProduct" /\ SetFields(call.input) = {})
        /\ (Len(call.submitted) = 0) => (call.err # NoError /\ tables = call.before)
        /\ \A i \in 1..Len(call.submitted) :
              call.submitted[i].op = (IF call.op = "InsertProduct" THEN "insert"
                                      ELSE "update")

\* an update with a field set whose statement the runner failed to execute
C19_Witness ==
    /\ call.op = "UpdateProduct"
    /\ call.execFault
    /\ SetFields(call.input) # {}
    /\ call.err # NoError
    /\ Len(call.submitted) = 1

====
